---- MODULE Spec2Model ----
(***************************************************************************)
(* A small-step model of the validation runtime of ts-data-schema:         *)
(* the leaf schemas, object(...) / Array_(...) / optional, or(...),        *)
(* recursive(...), convert(...) and predicate(...), executed on an         *)
(* explicit call stack over a heap of JavaScript objects and arrays.       *)
(***************************************************************************)
EXTENDS Integers, Sequences, FiniteSets, TLC

\* Longest array the generated inputs contain.
MaxLen == 3
\* Call-stack budget of the host engine, in validate frames: a call made
\* with the stack full raises RangeError instead of running.
MaxStack == 12

(***************************************************************************)
(* JavaScript values.  A value is a record [t, p, id]: t is the typeof     *)
(* category ("null" kept apart from "object"), p the payload of a          *)
(* primitive and id the heap address of an object or array.                *)
(***************************************************************************)
Prim(t, p) == [t |-> t, p |-> p, id |-> 0]
Num(p) == Prim("number", p)
Str(p) == Prim("string", p)
Bool(p) == Prim("boolean", p)
Undefined == Prim("undefined", "")
Null == Prim("null", "")
Ref(id) == [t |-> "object", p |-> "", id |-> id]
\* The value `Object.create(null)`: an object with no toString/valueOf.
BareObject == [t |-> "object", p |-> "Object.create(null)", id |-> 0]
\* Placeholder where the program has no value (Result.failure has no .value).
NoValue == Prim("none", "")

TypeOf(v) == IF v.t = "null" THEN "object" ELSE v.t

\* JavaScript's !== : NaN differs from itself, references compare by address.
StrictNotEqual(a, b) == IF a.t = "number" /\ a.p = "NaN" THEN TRUE ELSE a # b

(***************************************************************************)
(* Literals (input values as written in a program) and the heap.           *)
(* A heap cell is [kind |-> "Object" | "Array", ents |-> <<[k, v], ...>>]; *)
(* an array's entries carry k = "" and are addressed by position.          *)
(***************************************************************************)
TPrim(t, p) == [t |-> t, p |-> p, kind |-> "", kids |-> <<>>]
TNum(p) == TPrim("number", p)
TStr(p) == TPrim("string", p)
TTrue == TPrim("boolean", "true")
TUndefined == TPrim("undefined", "")
TNull == TPrim("null", "")
KV(k, v) == [k |-> k, v |-> v]
TObj(kvs) == [t |-> "object", p |-> "", kind |-> "Object", kids |-> kvs]
TArr(elems) ==
  [t |-> "object", p |-> "", kind |-> "Array",
   kids |-> [j \in 1..Len(elems) |-> KV("", elems[j])]]

RECURSIVE Load(_, _), LoadKids(_, _, _)
\* Evaluate a literal: allocate its objects and arrays, children first.
Load(tree, h) ==
  IF tree.kind = ""
  THEN [heap |-> h, val |-> Prim(tree.t, tree.p)]
  ELSE LET r == LoadKids(tree.kids, h, <<>>)
       IN [heap |-> Append(r.heap, [kind |-> tree.kind, ents |-> r.ents]),
           val |-> Ref(Len(r.heap) + 1)]
LoadKids(kids, h, acc) ==
  IF kids = <<>>
  THEN [heap |-> h, ents |-> acc]
  ELSE LET r == Load(Head(kids).v, h)
       IN LoadKids(Tail(kids), r.heap, Append(acc, KV(Head(kids).k, r.val)))

RECURSIVE Reify(_, _)
\* The structure a value has in a heap, as a literal (deep read).
Reify(v, h) ==
  IF v.t # "object" \/ v.id = 0
  THEN TPrim(v.t, v.p)
  ELSE [t |-> "object", p |-> "", kind |-> h[v.id].kind,
        kids |-> [j \in 1..Len(h[v.id].ents) |->
                    KV(h[v.id].ents[j].k, Reify(h[v.id].ents[j].v, h))]]

RECURSIVE Depth(_)
\* Nesting depth of a literal: 0 for a primitive, 1 + deepest child otherwise.
Depth(tree) ==
  IF tree.kind = "" THEN 0
  ELSE LET ds == {Depth(tree.kids[j].v) : j \in 1..Len(tree.kids)}
       IN 1 + (IF ds = {} THEN 0 ELSE CHOOSE d \in ds : \A e \in ds : e <= d)

IsObject(v) == v.t = "object"
IsArray(v, h) == v.t = "object" /\ v.id > 0 /\ h[v.id].kind = "Array"
Entries(v, h) == h[v.id].ents
\* `key in value` for a declared property key.  Declared keys of this model
\* are plain names, which an array never has.
HasKey(v, h, key) ==
  /\ h[v.id].kind = "Object"
  /\ \E j \in 1..Len(Entries(v, h)) : Entries(v, h)[j].k = key
KeyIndex(v, h, key) == CHOOSE j \in 1..Len(Entries(v, h)) : Entries(v, h)[j].k = key
\* value[key]
Get(v, h, key) == Entries(v, h)[KeyIndex(v, h, key)].v
\* value[i], i counted from 0
At(v, h, i) == Entries(v, h)[i + 1].v
Length(v, h) == Len(Entries(v, h))

(***************************************************************************)
(* Results of a validate call: Result.success(value), Result.failure of a  *)
(* ValidateError {message, path}, or an exception leaving the call.        *)
(***************************************************************************)
Success(v) == [kind |-> "success", value |-> v, message |-> "", path |-> <<>>]
failure(message, path) ==
  [kind |-> "failure", value |-> NoValue, message |-> message, path |-> path]
Thrown(message) ==
  [kind |-> "thrown", value |-> NoValue, message |-> message, path |-> <<>>]
None == [kind |-> "none", value |-> NoValue, message |-> "", path |-> <<>>]
\* The RangeError the engine raises for a call made with the stack full.
StackOverflow == Thrown("Maximum call stack size exceeded")

\* Path segments (keyof any): a property key or an array index.
KeySeg(key) == [seg |-> "key", key |-> key, index |-> 0]
IndexSeg(i) == [seg |-> "index", key |-> "", index |-> i]
\* For a call that adds no accessor (a child of or, of recursive).
NoSeg == [seg |-> "none", key |-> "", index |-> 0]

(***************************************************************************)
(* Caller-supplied functions.                                              *)
(***************************************************************************)
RECURSIVE StringOf(_, _), Join(_, _, _)
\* String(v) for a value that has a string form.
StringOf(v, h) ==
  CASE v.t \in {"number", "string", "boolean"} -> v.p
    [] v.t = "undefined" -> "undefined"
    [] v.t = "null" -> "null"
    [] OTHER -> IF h[v.id].kind = "Array" THEN Join(h[v.id].ents, h, 1)
                ELSE "[object Object]"
\* Array.prototype.join(","): null and undefined elements print as "".
Join(ents, h, j) ==
  IF j > Len(ents) THEN ""
  ELSE (IF ents[j].v.t \in {"undefined", "null"} THEN "" ELSE StringOf(ents[j].v, h))
       \o (IF j < Len(ents) THEN "," ELSE "")
       \o Join(ents, h, j + 1)

Return(v) == [kind |-> "return", value |-> v, isError |-> FALSE, message |-> ""]
ThrowError(message) ==
  [kind |-> "throw", value |-> NoValue, isError |-> TRUE, message |-> message]
ThrowValue(v) == [kind |-> "throw", value |-> v, isError |-> FALSE, message |-> ""]

\* String(e) as a completion: converting an object that has neither toString
\* nor valueOf raises TypeError.
ToStringCompletion(v, h) ==
  IF v = BareObject
  THEN ThrowError("Cannot convert object to primitive value")
  ELSE Return(Str(StringOf(v, h)))

\* Number(text)
StringToNumber(text) ==
  CASE text = "" -> Num("0")
    [] text \in {"0", "1", "2"} -> Num(text)
    [] OTHER -> Num("NaN")
\* Number(v)
ToNumber(v, h) ==
  CASE v.t = "number" -> v
    [] v.t = "string" -> StringToNumber(v.p)
    [] v.t = "boolean" -> IF v.p = "true" THEN Num("1") ELSE Num("0")
    [] v.t = "undefined" -> Num("NaN")
    [] v.t = "null" -> Num("0")
    [] OTHER -> StringToNumber(StringOf(v, h))
\* JSON.parse(v): the argument's string form is parsed; of the texts the
\* model's values print as, only numerals, true, false and null are JSON.
JSONParse(v, h) ==
  LET text == StringOf(v, h)
  IN CASE text \in {"0", "1", "2"} -> Return(Num(text))
       [] text \in {"true", "false"} -> Return(Bool(text))
       [] text = "null" -> Return(Null)
       [] OTHER -> ThrowError(text \o " is not valid JSON")

\* converter(value) for the converters the schemas of this model use.
Converter(fn, v, h) ==
  CASE fn = "String" -> Return(Str(StringOf(v, h)))
    [] fn = "Number" -> Return(ToNumber(v, h))
    [] fn = "JSON.parse" -> JSONParse(v, h)
    [] fn = "(v) => { throw v }" -> ThrowValue(v)
    [] fn = "() => { throw Object.create(null) }" -> ThrowValue(BareObject)

\* f(value), f.name and `${f}` for the predicates the schemas use.
PredicateHolds(fn, v) ==
  CASE fn = "(value) => value === 1" -> v = Num("1")
    [] fn = "(value) => value === 2" -> v = Num("2")
    [] fn = "function isText(value) { return typeof value === 'string' }" ->
         v.t = "string"
PredicateName(fn) ==
  IF fn = "function isText(value) { return typeof value === 'string' }"
  THEN "isText" ELSE ""

(***************************************************************************)
(* Schemas.  A node is the object a constructor returns; children are      *)
(* named, so that a recursive schema can name itself.                      *)
(***************************************************************************)
Node(type) ==
  [type |-> type, properties |-> <<>>, element |-> "", schemas |-> <<>>,
   lazy |-> "", schema |-> "", fn |-> ""]
Property(key, optional, schema) == [key |-> key, optional |-> optional, schema |-> schema]
object(properties) == [Node("properties") EXCEPT !.properties = properties]
Array_(element) == [Node("Array") EXCEPT !.element = element]
or(schemas) == [Node("or") EXCEPT !.schemas = schemas]
recursive(lazy) == [Node("recursive") EXCEPT !.lazy = lazy]
convert(fn) == [Node("convert") EXCEPT !.fn = fn]
predicate(fn) == [Node("predicate") EXCEPT !.fn = fn]

LeafTypes ==
  {"boolean", "number", "bigint", "string", "symbol", "unknown", "any", "never", "object"}

SchemaTable ==
  [number |-> Node("number"),
   string |-> Node("string"),
   boolean |-> Node("boolean"),
   never |-> Node("never"),
   unknown |-> Node("unknown"),
   bareObject |-> Node("object"),
   cString |-> convert("String"),
   cNumber |-> convert("Number"),
   cParse |-> convert("JSON.parse"),
   cThrowInput |-> convert("(v) => { throw v }"),
   cThrowBare |-> convert("() => { throw Object.create(null) }"),
   pIsOne |-> predicate("(value) => value === 1"),
   pIsTwo |-> predicate("(value) => value === 2"),
   pIsText |-> predicate("function isText(value) { return typeof value === 'string' }"),
   arrNum |-> Array_("number"),
   objArr |-> object(<<Property("a", FALSE, "arrNum")>>),
   objOptFirst |-> object(<<Property("b", TRUE, "string"), Property("a", FALSE, "number")>>),
   objTwoReq |-> object(<<Property("a", FALSE, "number"), Property("b", FALSE, "string")>>),
   orNumStr |-> or(<<"number", "string">>),
   orParseString |-> or(<<"cParse", "cString">>),
   orArrStr |-> or(<<"arrNum", "string">>),
   orPreds |-> or(<<"pIsOne", "pIsTwo", "pIsText">>),
   orThrow |-> or(<<"cThrowInput", "cString", "unknown">>),
   orBare |-> or(<<"number", "cThrowBare">>),
   arrCNumber |-> Array_("cNumber"),
   objConv |-> object(<<Property("a", FALSE, "cNumber"), Property("b", TRUE, "cString")>>),
   objB |-> object(<<Property("b", FALSE, "number")>>),
   arrObj |-> Array_("objB"),
   objObj |-> object(<<Property("a", FALSE, "objB")>>),
   objArrObj |-> object(<<Property("a", FALSE, "arrObj")>>),
   arrThrowBare |-> Array_("cThrowBare"),
   list |-> recursive("objNext"),
   objNext |-> object(<<Property("next", TRUE, "list")>>),
   tree |-> recursive("orNumArrTree"),
   orNumArrTree |-> or(<<"number", "arrTree">>),
   arrTree |-> Array_("tree"),
   loop |-> recursive("orNeverLoop"),
   orNeverLoop |-> or(<<"never", "loop">>)]

\* The schemas validate is called on.
RootSchemas ==
  {"number", "bareObject", "pIsText", "cThrowInput", "cThrowBare",
   "arrNum", "objArr", "objOptFirst", "objTwoReq", "orNumStr", "orParseString",
   "orArrStr", "orPreds", "orThrow", "orBare", "arrCNumber", "objConv", "arrObj",
   "objObj", "objArrObj", "arrThrowBare", "list", "tree", "loop"}

(***************************************************************************)
(* Input values.                                                           *)
(***************************************************************************)
PrimTrees == {TNum("1"), TNum("NaN"), TStr("x"), TStr("1"), TTrue, TUndefined, TNull}
ElemPool == {TNum("1"), TNum("NaN"), TStr("x")}
ArrayTrees == {TArr(s) : s \in UNION {[1..n -> ElemPool] : n \in 0..MaxLen}}
AVals ==
  {TNum("1"), TNum("NaN"), TStr("x"), TStr("1"), TArr(<<TNum("1"), TStr("x")>>),
   TArr(<<TNum("1")>>), TObj(<<KV("b", TNum("1"))>>), TObj(<<KV("b", TStr("x"))>>)}
BVals == {TNum("1"), TStr("x")}
ObjectTrees ==
  {TObj(a \o b) : a \in {<<>>} \cup {<<KV("a", v)>> : v \in AVals},
                  b \in {<<>>} \cup {<<KV("b", v)>> : v \in BVals}}
NestedTrees ==
  {TObj(<<KV("a", TArr(<<TObj(<<KV("b", TStr("x"))>>)>>))>>),
   TObj(<<KV("a", TArr(<<TObj(<<KV("b", TNum("1"))>>), TObj(<<KV("b", TStr("x"))>>)>>))>>),
   TObj(<<KV("a", TStr("1")), KV("c", TNum("1")), KV("b", TNum("2"))>>),
   TObj(<<KV("c", TArr(<<>>)), KV("a", TNum("1"))>>),
   TArr(<<TObj(<<KV("b", TNum("1"))>>), TObj(<<KV("b", TStr("x"))>>)>>),
   TArr(<<TObj(<<KV("b", TNum("1"))>>), TObj(<<>>)>>),
   TArr(<<TArr(<<TNum("1")>>), TArr(<<TStr("x")>>)>>),
   TArr(<<TArr(<<TStr("1")>>), TNum("1"), TStr("1"), TStr("2")>>),
   TObj(<<KV("next", TObj(<<KV("next", TObj(<<>>))>>))>>),
   TObj(<<KV("next", TObj(<<KV("next", TNum("1"))>>))>>),
   TObj(<<KV("next", TUndefined)>>)}
Inputs == PrimTrees \cup ArrayTrees \cup ObjectTrees \cup NestedTrees

(***************************************************************************)
(* State.                                                                  *)
(***************************************************************************)
VARIABLES
  schema,   \* the schema validate was called on
  tree,     \* the input as a literal
  input,    \* the input value
  heap,     \* the objects and arrays allocated so far
  stack,    \* the validate calls in progress, innermost last
  ret,      \* what the call that just ended returned, None if none
  result,   \* what the outermost call returned
  pc,       \* "run" | "done"
  log,      \* history: the validate calls that have ended, in order
  run,      \* 1 for the first validation of the input, 2 for the repeat
  first     \* history: the first validation's result, read deeply

vars == <<schema, tree, input, heap, stack, ret, result, pc, log, run, first>>

\* A validate call: the schema, its argument, the loop position i (a 0-based
\* index; for recursive, the supplier calls made), changedValue,
\* errorMessages, and (history) the child calls made so far.
NewFrame(sid, v) ==
  [sid |-> sid, value |-> v, i |-> 0, changedValue |-> v, errorMessages |-> <<>>,
   calls |-> <<>>]

Top == stack[Len(stack)]
Schema == SchemaTable[Top.sid]
Running == pc = "run" /\ stack # <<>>

\* The top call returns (or raises) out.
Pop(frame, out) ==
  /\ stack' = SubSeq(stack, 1, Len(stack) - 1)
  /\ ret' = out
  /\ log' = Append(log, [sid |-> frame.sid, value |-> frame.value, depth |-> Len(stack),
                         i |-> frame.i, calls |-> frame.calls, out |-> out])
\* The top call goes on with the next iteration.
Continue(frame) ==
  /\ stack' = [stack EXCEPT ![Len(stack)] = frame]
  /\ ret' = None
  /\ log' = log
\* The top call calls sid's validate on v; with the stack full the call
\* raises RangeError in the caller, which does not catch it.
Push(frame, sid, v) ==
  IF Len(stack) >= MaxStack
  THEN Pop(frame, StackOverflow)
  ELSE /\ stack' = Append([stack EXCEPT ![Len(stack)] = frame], NewFrame(sid, v))
       /\ ret' = None
       /\ log' = log
\* History: the child call that just returned.
Recorded(frame, seg, sid, v) ==
  [frame EXCEPT !.calls = Append(@, [seg |-> seg, sid |-> sid, value |-> v, out |-> ret])]

Init ==
  /\ schema \in RootSchemas
  /\ tree \in Inputs
  /\ heap = Load(tree, <<>>).heap
  /\ input = Load(tree, <<>>).val
  /\ stack = <<NewFrame(schema, input)>>
  /\ ret = None
  /\ result = None
  /\ pc = "run"
  /\ log = <<>>
  /\ run = 1
  /\ first = None

(***************************************************************************)
(* Leaf schemas, predicate, convert.                                       *)
(***************************************************************************)
LeafResult(type, v) ==
  CASE type = "never" -> failure("never type does not accept any value", <<>>)
    [] type \in {"unknown", "any"} -> Success(v)
    [] type = "object" ->
         IF TypeOf(v) = "object" /\ v # Null THEN Success(v)
         ELSE failure("not an object", <<>>)
    [] type = "bigint" ->
         IF TypeOf(v) = type THEN Success(v) ELSE failure("not a bigint", <<>>)
    [] type = "boolean" ->
         IF TypeOf(v) = type THEN Success(v) ELSE failure("not a boolean", <<>>)
    [] type = "number" ->
         IF TypeOf(v) = type THEN Success(v) ELSE failure("not a number", <<>>)
    [] type = "string" ->
         IF TypeOf(v) = type THEN Success(v) ELSE failure("not a string", <<>>)
    [] type = "symbol" ->
         IF TypeOf(v) = type THEN Success(v) ELSE failure("not a symbol", <<>>)

ValidateLeaf ==
  /\ Running /\ ret = None
  /\ Schema.type \in LeafTypes
  /\ Pop(Top, LeafResult(Schema.type, Top.value))
  /\ UNCHANGED <<schema, tree, input, heap, result, pc, run, first>>

PredicateResult(fn, v) ==
  IF PredicateHolds(fn, v) THEN Success(v)
  ELSE IF PredicateName(fn) # ""
       THEN failure("predicate " \o PredicateName(fn) \o " not met: " \o fn, <<>>)
       ELSE failure("predicate not met: " \o fn, <<>>)

ValidatePredicate ==
  /\ Running /\ ret = None
  /\ Schema.type = "predicate"
  /\ Pop(Top, PredicateResult(Schema.fn, Top.value))
  /\ UNCHANGED <<schema, tree, input, heap, result, pc, run, first>>

\* The catch block: e instanceof Error ? e.message : String(e), then
\* failure(message).  String(e) runs inside the catch block, so what it
\* raises leaves validate.
Caught(e, h) ==
  IF e.isError THEN failure(e.message, <<>>)
  ELSE LET text == ToStringCompletion(e.value, h)
       IN IF text.kind = "return" THEN failure(text.value.p, <<>>)
          ELSE Thrown(text.message)

ConvertResult(fn, v, h) ==
  LET c == Converter(fn, v, h)
  IN IF c.kind = "return" THEN Success(c.value) ELSE Caught(c, h)

ValidateConvert ==
  /\ Running /\ ret = None
  /\ Schema.type = "convert"
  /\ Pop(Top, ConvertResult(Schema.fn, Top.value, heap))
  /\ UNCHANGED <<schema, tree, input, heap, result, pc, run, first>>

(***************************************************************************)
(* object(properties)                                                      *)
(***************************************************************************)
\* partition(Reflect.ownKeys(properties), key => type === 'optional')
OptionalPropertyKeys(properties) == SelectSeq(properties, LAMBDA p : p.optional)
RequiredPropertyKeys(properties) == SelectSeq(properties, LAMBDA p : ~p.optional)
\* A single loop over the keys as declared.
ProcessingOrder_Declared(properties) == properties
\* The two loops run one after the other: required keys, then optional keys.
ProcessingOrder(properties) ==
  RequiredPropertyKeys(properties) \o OptionalPropertyKeys(properties)

\* [...result.error.path, key] (required keys) and [...path, key]
\* (optional keys).
ObjectFailurePath(path, key) == path \o <<KeySeg(key)>>

\* result.isFailure, in the two property loops.
PropertyFailed(r) == r.kind = "failure"

\* changedValue[key] = value: the assignment made on changedValue itself.
Spread_InPlace(h, changedValue, key, v) ==
  LET ents == h[changedValue.id].ents
  IN [heap |-> [h EXCEPT ![changedValue.id].ents =
                  [j \in 1..Len(ents) |-> IF ents[j].k = key THEN KV(key, v) ELSE ents[j]]],
      ref |-> changedValue]
\* { ...changedValue, [key]: value }: a new object with changedValue's own
\* properties and key set.
Spread(h, changedValue, key, v) ==
  LET ents == h[changedValue.id].ents
      set == IF \E j \in 1..Len(ents) : ents[j].k = key
             THEN [j \in 1..Len(ents) |-> IF ents[j].k = key THEN KV(key, v) ELSE ents[j]]
             ELSE Append(ents, KV(key, v))
  IN [heap |-> Append(h, [kind |-> "Object", ents |-> set]), ref |-> Ref(Len(h) + 1)]

ValidateObject ==
  /\ Running /\ ret = None
  /\ Schema.type = "properties"
  /\ LET order == ProcessingOrder(Schema.properties)
         f == Top
     IN IF TypeOf(f.value) # "object" \/ f.value = Null
        THEN Pop(f, failure("not an object", <<>>))
        ELSE IF f.i >= Len(order)
        THEN Pop(f, Success(f.changedValue))
        ELSE LET p == order[f.i + 1]
             IN IF ~HasKey(f.value, heap, p.key)
                THEN IF p.optional
                     THEN Continue([f EXCEPT !.i = @ + 1])
                     ELSE Pop(f, failure("missing required property", <<KeySeg(p.key)>>))
                ELSE Push(f, p.schema, Get(f.value, heap, p.key))
  /\ UNCHANGED <<schema, tree, input, heap, result, pc, run, first>>

ObjectReturn ==
  /\ Running /\ ret # None
  /\ Schema.type = "properties"
  /\ LET p == ProcessingOrder(Schema.properties)[Top.i + 1]
         old == Get(Top.value, heap, p.key)
         f == Recorded(Top, KeySeg(p.key), p.schema, old)
     IN IF ret.kind = "thrown"
        THEN Pop(f, ret) /\ heap' = heap
        ELSE IF PropertyFailed(ret)
        THEN Pop(f, failure(ret.message, ObjectFailurePath(ret.path, p.key))) /\ heap' = heap
        ELSE IF StrictNotEqual(ret.value, old)
        THEN LET s == Spread(heap, f.changedValue, p.key, ret.value)
             IN /\ heap' = s.heap
                /\ Continue([f EXCEPT !.i = @ + 1, !.changedValue = s.ref])
        ELSE heap' = heap /\ Continue([f EXCEPT !.i = @ + 1])
  /\ UNCHANGED <<schema, tree, input, result, pc, run, first>>

(***************************************************************************)
(* Array_(element)                                                         *)
(***************************************************************************)
\* [i, ...result.error.path]
ArrayFailurePath(i, path) == <<IndexSeg(i)>> \o path

\* An element loop that never takes the failure branch.
ElementFailed_Never(r) == FALSE
\* result.isFailure, in the element loop.
ElementFailed(r) == r.kind = "failure"

\* changedValue.toSpliced(i, 1, value): a new array, element i replaced.
ToSpliced(h, changedValue, i, v) ==
  LET ents == h[changedValue.id].ents
  IN [heap |-> Append(h, [kind |-> "Array",
                          ents |-> [j \in 1..Len(ents) |->
                                      IF j = i + 1 THEN KV("", v) ELSE ents[j]]]),
      ref |-> Ref(Len(h) + 1)]

ValidateArray ==
  /\ Running /\ ret = None
  /\ Schema.type = "Array"
  /\ LET f == Top
     IN IF ~IsArray(f.value, heap)
        THEN Pop(f, failure("not an array", <<>>))
        ELSE IF f.i < Length(f.value, heap)
        THEN Push(f, Schema.element, At(f.value, heap, f.i))
        ELSE Pop(f, Success(f.changedValue))
  /\ UNCHANGED <<schema, tree, input, heap, result, pc, run, first>>

ArrayReturn ==
  /\ Running /\ ret # None
  /\ Schema.type = "Array"
  /\ LET old == At(Top.value, heap, Top.i)
         f == Recorded(Top, IndexSeg(Top.i), Schema.element, old)
     IN IF ret.kind = "thrown"
        THEN Pop(f, ret) /\ heap' = heap
        ELSE IF ElementFailed(ret)
        THEN Pop(f, failure(ret.message, ArrayFailurePath(f.i, ret.path))) /\ heap' = heap
        ELSE IF StrictNotEqual(ret.value, old)
        THEN LET s == ToSpliced(heap, f.changedValue, f.i, ret.value)
             IN /\ heap' = s.heap
                /\ Continue([f EXCEPT !.i = @ + 1, !.changedValue = s.ref])
        ELSE heap' = heap /\ Continue([f EXCEPT !.i = @ + 1])
  /\ UNCHANGED <<schema, tree, input, result, pc, run, first>>

(***************************************************************************)
(* or(...schemas)                                                          *)
(***************************************************************************)
\* `${i + 1}` for the trial numbers a schema of this model can reach.
Decimal(n) == <<"1", "2", "3", "4", "5", "6", "7", "8", "9">>[n]

RECURSIVE JoinNumbered(_, _)
\* errorMessages.map((message, i) => `(${i + 1}) ${message}`).join(' '),
\* from the element at 0-based index i on.
JoinNumbered(errorMessages, i) ==
  IF i >= Len(errorMessages) THEN ""
  ELSE "(" \o Decimal(i + 1) \o ") " \o errorMessages[i + 1]
       \o (IF i + 1 < Len(errorMessages) THEN " " ELSE "")
       \o JoinNumbered(errorMessages, i + 1)
\* The aggregate with the last message left out.
OrMessage_DropLast(errorMessages) ==
  "must resolve any one of the following issues: "
    \o JoinNumbered(SubSeq(errorMessages, 1, Len(errorMessages) - 1), 0)
OrMessage(errorMessages) ==
  "must resolve any one of the following issues: " \o JoinNumbered(errorMessages, 0)

\* The test inverted: result.isFailure.
OrSucceeded_Inverted(r) == r.kind = "failure"
\* result.isSuccess, in the loop over the schemas.
OrSucceeded(r) == r.kind = "success"

ValidateOr ==
  /\ Running /\ ret = None
  /\ Schema.type = "or"
  /\ IF Top.i < Len(Schema.schemas)
     THEN Push(Top, Schema.schemas[Top.i + 1], Top.value)
     ELSE Pop(Top, failure(OrMessage(Top.errorMessages), <<>>))
  /\ UNCHANGED <<schema, tree, input, heap, result, pc, run, first>>

OrReturn ==
  /\ Running /\ ret # None
  /\ Schema.type = "or"
  /\ LET f == Recorded(Top, NoSeg, Schema.schemas[Top.i + 1], Top.value)
     IN IF ret.kind = "thrown" \/ OrSucceeded(ret)
        THEN Pop(f, ret)
        ELSE Continue([f EXCEPT !.i = @ + 1,
                                !.errorMessages = Append(@, ret.message)])
  /\ UNCHANGED <<schema, tree, input, heap, result, pc, run, first>>

(***************************************************************************)
(* recursive(lazy)                                                         *)
(***************************************************************************)
\* The recursive node validating with itself instead of calling lazy().
Lazy_Self(sid) == sid
\* lazy(): the schema the supplier returns.
Lazy(sid) == SchemaTable[sid].lazy

ValidateRecursive ==
  /\ Running /\ ret = None
  /\ Schema.type = "recursive"
  /\ Push([Top EXCEPT !.i = @ + 1], Lazy(Top.sid), Top.value)
  /\ UNCHANGED <<schema, tree, input, heap, result, pc, run, first>>

RecursiveReturn ==
  /\ Running /\ ret # None
  /\ Schema.type = "recursive"
  /\ Pop(Recorded(Top, NoSeg, Lazy(Top.sid), Top.value), ret)
  /\ UNCHANGED <<schema, tree, input, heap, result, pc, run, first>>

(***************************************************************************)
(* validate(schema, value), and a second validation of the same input.     *)
(***************************************************************************)
ReifyOutcome(r, h) == [r EXCEPT !.value = Reify(r.value, h)]

Finish ==
  /\ pc = "run" /\ stack = <<>> /\ ret # None
  /\ result' = ret
  /\ ret' = None
  /\ pc' = "done"
  /\ first' = IF run = 1 THEN ReifyOutcome(ret, heap) ELSE first
  /\ UNCHANGED <<schema, tree, input, heap, stack, log, run>>

Revalidate ==
  /\ pc = "done" /\ run = 1
  /\ run' = 2
  /\ pc' = "run"
  /\ stack' = <<NewFrame(schema, input)>>
  /\ result' = None
  /\ log' = <<>>
  /\ UNCHANGED <<schema, tree, input, heap, ret, first>>

Next ==
  \/ ValidateLeaf
  \/ ValidatePredicate
  \/ ValidateConvert
  \/ ValidateObject
  \/ ObjectReturn
  \/ ValidateArray
  \/ ArrayReturn
  \/ ValidateOr
  \/ OrReturn
  \/ ValidateRecursive
  \/ RecursiveReturn
  \/ Finish
  \/ Revalidate

Spec == Init /\ [][Next]_vars

\* validate is synchronous code: a call in progress keeps running.
FairSpec == Spec /\ WF_vars(Next)

TypeOK ==
  /\ pc \in {"run", "done"}
  /\ Len(stack) <= MaxStack
  /\ run \in {1, 2}

(***************************************************************************)
(* Properties.                                                             *)
(***************************************************************************)
Type(sid) == SchemaTable[sid].type
Last(seq) == seq[Len(seq)]
InputHeap == Load(tree, <<>>).heap
Ended == {log[j] : j \in 1..Len(log)}
Aggregates == {e \in Ended : Type(e.sid) \in {"properties", "Array"}}

\* C1: a failure returned by nested object(...) / Array_(...) schemas has its
\* path in root-to-leaf order: the accessor of the enclosing combinator comes
\* first, then the path the failing child reported; a missing required
\* property is reported at [key]; and object({a: Array_(number)}) on
\* {a: [1, "x"]} fails at ["a", 1].
C1_PathRootToLeaf ==
  /\ \A e \in Aggregates :
       (e.out.kind = "failure" /\ e.calls # <<>> /\ Last(e.calls).out.kind = "failure")
         => e.out.path = <<Last(e.calls).seg>> \o Last(e.calls).out.path
  /\ \A e \in Aggregates :
       (e.out.kind = "failure" /\ e.out.message = "missing required property"
          /\ (e.calls = <<>> \/ Last(e.calls).out.kind # "failure"))
         => Len(e.out.path) = 1 /\ e.out.path[1].seg = "key"
  /\ (pc = "done" /\ schema = "objArr"
        /\ tree = TObj(<<KV("a", TArr(<<TNum("1"), TStr("x")>>))>>))
       => result.path = <<KeySeg("a"), IndexSeg(1)>>

RECURSIVE NonConverting(_)
\* The schemas C2 calls non-converting: a leaf, a predicate, or an
\* object(...) / Array_(...) all of whose children are non-converting.
NonConverting(sid) ==
  LET n == SchemaTable[sid]
  IN CASE n.type \in LeafTypes \cup {"predicate"} -> TRUE
       [] n.type = "Array" -> NonConverting(n.element)
       [] n.type = "properties" ->
            \A j \in 1..Len(n.properties) : NonConverting(n.properties[j].schema)
       [] OTHER -> FALSE

\* C2: a non-converting schema that succeeds returns the very value it was
\* given: the same primitive, or the same object or array instance.
C2_IdentityPreserved ==
  \A e \in Ended :
    (NonConverting(e.sid) /\ e.out.kind = "success") => e.out.value = e.value

\* The child calls of e whose validated value is not the value passed in.
ChangedCalls(e) ==
  {c \in 1..Len(e.calls) : e.calls[c].out.value # e.calls[c].value}
\* The accessor of entry j of an aggregate's cell.
EntrySeg(cell, j) == IF cell.kind = "Array" THEN IndexSeg(j - 1) ELSE KeySeg(cell.ents[j].k)

\* C3: object(...) / Array_(...) succeeding returns the input instance when no
\* child changed its value; otherwise a new aggregate with the input's very
\* keys (length), the validated value at every changed key or index and the
\* input's own property or element everywhere else.
C3_MinimalCopy ==
  \A e \in Aggregates :
    e.out.kind = "success" =>
      IF ChangedCalls(e) = {}
      THEN e.out.value = e.value
      ELSE LET old == heap[e.value.id]
               new == heap[e.out.value.id]
           IN /\ e.out.value # e.value
              /\ e.out.value.id > Len(InputHeap)
              /\ new.kind = old.kind
              /\ Len(new.ents) = Len(old.ents)
              /\ \A j \in 1..Len(old.ents) :
                   /\ new.ents[j].k = old.ents[j].k
                   /\ new.ents[j].v =
                        IF \E c \in ChangedCalls(e) : e.calls[c].seg = EntrySeg(old, j)
                        THEN e.calls[CHOOSE c \in ChangedCalls(e) :
                                       e.calls[c].seg = EntrySeg(old, j)].out.value
                        ELSE old.ents[j].v

\* A schema whose validate makes no further validate call, and its result.
Simple(sid) == Type(sid) \in LeafTypes \cup {"convert", "predicate"}
SimpleResult(sid, v, h) ==
  CASE Type(sid) = "convert" -> ConvertResult(SchemaTable[sid].fn, v, h)
    [] Type(sid) = "predicate" -> PredicateResult(SchemaTable[sid].fn, v)
    [] OTHER -> LeafResult(Type(sid), v)
OrCalls == {e \in Ended : Type(e.sid) = "or"}

\* C4: or(s1, ..., sn) validates its children on the input in declared order,
\* each at most once, and returns unmodified the result of the first child
\* that succeeds: every child tried before it failed, no child after it is
\* tried, and of several children that would succeed the earliest wins.
\* or(convert(JSON.parse), convert(String)) on undefined gives 'undefined'.
C4_OrFirstSuccess ==
  /\ \A e \in OrCalls :
       LET ss == SchemaTable[e.sid].schemas
           n == Len(e.calls)
       IN /\ n <= Len(ss)
          /\ \A c \in 1..n : e.calls[c].sid = ss[c] /\ e.calls[c].value = e.value
          /\ \A c \in 1..n :
               e.calls[c].out.kind = "success" => (c = n /\ e.out = e.calls[c].out)
          /\ e.out.kind = "success" =>
               /\ n >= 1 /\ e.out = e.calls[n].out
               /\ \A c \in 1..(n - 1) : e.calls[c].out.kind = "failure"
          /\ \A k \in 1..Len(ss) :
               ( /\ \A c \in 1..k : Simple(ss[c])
                 /\ SimpleResult(ss[k], e.value, heap).kind = "success"
                 /\ \A c \in 1..(k - 1) : SimpleResult(ss[c], e.value, heap).kind = "failure" )
               => (n = k /\ e.out = SimpleResult(ss[k], e.value, heap))
  /\ (pc = "done" /\ schema = "orParseString" /\ tree = TUndefined)
       => result = Success(Str("undefined"))

\* An or of three children: the first failed, the second succeeded and its
\* result was returned, and the third, never tried, would have succeeded
\* with another value.
C4_Witness ==
  \E e \in OrCalls :
    /\ Len(SchemaTable[e.sid].schemas) = 3
    /\ Len(e.calls) = 2
    /\ e.calls[1].out.kind = "failure"
    /\ e.out = e.calls[2].out /\ e.out.kind = "success"
    /\ SimpleResult(SchemaTable[e.sid].schemas[3], e.value, heap).kind = "success"
    /\ SimpleResult(SchemaTable[e.sid].schemas[3], e.value, heap) # e.out

RECURSIVE C5_Numbered(_, _)
\* "(k) m_k (k+1) m_(k+1) ..." for the failures of calls k.. of an or.
C5_Numbered(calls, k) ==
  IF k > Len(calls) THEN ""
  ELSE "(" \o Decimal(k) \o ") " \o calls[k].out.message
       \o (IF k < Len(calls) THEN " " \o C5_Numbered(calls, k + 1) ELSE "")

\* C5: when every child of or(s1, ..., sn) fails, the result is one failure
\* with the empty path whose message is the fixed prefix followed by every
\* child's message, numbered from 1 in declared order, separated by spaces.
\* or(number, string) on true gives "(1) not a number (2) not a string".
C5_OrAggregate ==
  /\ \A e \in OrCalls :
       ( /\ Len(e.calls) = Len(SchemaTable[e.sid].schemas)
         /\ \A c \in 1..Len(e.calls) : e.calls[c].out.kind = "failure" )
       => /\ e.out.kind = "failure"
          /\ e.out.path = <<>>
          /\ e.out.message =
               "must resolve any one of the following issues: " \o C5_Numbered(e.calls, 1)
  /\ (pc = "done" /\ schema = "orNumStr" /\ tree = TTrue)
       => result = failure("must resolve any one of the following issues: "
                             \o "(1) not a number (2) not a string", <<>>)

\* An or all of whose children failed, one of them with a non-empty path.
C5_Witness ==
  \E e \in OrCalls :
    /\ Len(e.calls) = 2
    /\ \A c \in 1..2 : e.calls[c].out.kind = "failure"
    /\ e.calls[1].out.path # <<>>
    /\ e.out.kind = "failure" /\ e.out.path = <<>>

Converts == {e \in Ended : Type(e.sid) = "convert"}

\* C6: convert(fn).validate(v) never lets an exception escape: Success with
\* the returned value when fn(v) returns, and when fn(v) throws a Failure with
\* the empty path and the thrown Error's message, or the string form of a
\* thrown value that is not an Error.
C6_ConvertNeverThrows ==
  \A e \in Converts :
    LET c == Converter(SchemaTable[e.sid].fn, e.value, heap)
    IN /\ e.out.kind \in {"success", "failure"}
       /\ c.kind = "return" => e.out = Success(c.value)
       /\ (c.kind = "throw" /\ c.isError) => e.out = failure(c.message, <<>>)
       /\ (c.kind = "throw" /\ ~c.isError /\ c.value # BareObject)
            => e.out = failure(StringOf(c.value, heap), <<>>)

ObjectCalls == {e \in Ended : Type(e.sid) = "properties" /\ e.value.t = "object"}
Called(e, key) == \E c \in 1..Len(e.calls) : e.calls[c].seg = KeySeg(key)
CallAt(e, key) == CHOOSE c \in 1..Len(e.calls) : e.calls[c].seg = KeySeg(key)
\* A declared property the input fails on: a required key the input lacks,
\* a key whose child validation failed, or a present key whose leaf schema
\* rejects the value.
Lacks(e, p) == ~HasKey(e.value, heap, p.key)
Bad(e, p) ==
  \/ ~p.optional /\ Lacks(e, p)
  \/ Called(e, p.key) /\ e.calls[CallAt(e, p.key)].out.kind = "failure"
  \/ /\ ~Lacks(e, p) /\ Type(p.schema) \in LeafTypes
     /\ LeafResult(Type(p.schema), Get(e.value, heap, p.key)).kind = "failure"
\* The failure the input's property p gives at the object: its message and,
\* for a missing key, its path.
BadMessage(e, p) ==
  IF Lacks(e, p) THEN "missing required property"
  ELSE IF Type(p.schema) \in LeafTypes
       THEN LeafResult(Type(p.schema), Get(e.value, heap, p.key)).message
       ELSE e.calls[CallAt(e, p.key)].out.message

\* C7: object(propertyMap) validates every required key before any optional
\* key, whatever the declared order: no optional key's child is validated
\* before a required key's, and when a required key is missing or invalid the
\* failure reported is that of the first such required key ('missing required
\* property' at [key] when missing) and no optional key's child is validated.
C7_RequiredBeforeOptional ==
  \A e \in ObjectCalls :
    LET ps == SchemaTable[e.sid].properties
        req == {j \in 1..Len(ps) : ~ps[j].optional}
        opt == {j \in 1..Len(ps) : ps[j].optional}
        bad == {j \in req : Bad(e, ps[j])}
    IN /\ \A r \in req, o \in opt :
            Called(e, ps[o].key) =>
              /\ Called(e, ps[r].key)
              /\ CallAt(e, ps[r].key) < CallAt(e, ps[o].key)
              /\ e.calls[CallAt(e, ps[r].key)].out.kind = "success"
       /\ bad # {} =>
            LET j0 == CHOOSE j \in bad : \A k \in bad : j <= k
            IN /\ \A o \in opt : ~Called(e, ps[o].key)
               /\ e.out.kind = "failure"
               /\ e.out.message = BadMessage(e, ps[j0])
               /\ Lacks(e, ps[j0]) => e.out.path = <<KeySeg(ps[j0].key)>>

\* An object schema that declares its optional key first, on an input that
\* lacks the required key and has an invalid value at the optional key.
C7_Witness ==
  \E e \in ObjectCalls :
    LET ps == SchemaTable[e.sid].properties
    IN /\ Len(ps) = 2 /\ ps[1].optional /\ ~ps[2].optional
       /\ Lacks(e, ps[2])
       /\ ~Lacks(e, ps[1]) /\ Bad(e, ps[1])
       /\ e.calls = <<>>
       /\ e.out = failure("missing required property", <<KeySeg(ps[2].key)>>)

\* The declared properties whose child an object validates when no child
\* fails: the required ones, then the optional ones the input has.
C8_Expected(e) ==
  LET ps == SchemaTable[e.sid].properties
  IN SelectSeq(ps, LAMBDA p : ~p.optional)
       \o SelectSeq(ps, LAMBDA p : p.optional /\ ~Lacks(e, p))

\* C8: object(...) and Array_(...) are fail-fast: children are validated in
\* processing order (elements by ascending index; keys required, then
\* optional), every child validated before the last one succeeded, a failing
\* child ends the call with a Failure carrying its message unchanged, and the
\* combinator succeeds only when every child it has to validate succeeded.
C8_FailFast ==
  /\ \A e \in {a \in Aggregates : IsArray(a.value, heap)} :
       LET n == Len(e.calls)
       IN /\ Type(e.sid) = "Array" =>
               /\ n <= Length(e.value, heap)
               /\ \A c \in 1..n :
                    /\ e.calls[c].seg = IndexSeg(c - 1)
                    /\ e.calls[c].sid = SchemaTable[e.sid].element
                    /\ e.calls[c].value = At(e.value, heap, c - 1)
               /\ e.out.kind = "success" => n = Length(e.value, heap)
  /\ \A e \in ObjectCalls :
       LET n == Len(e.calls)
           ex == C8_Expected(e)
       IN /\ n <= Len(ex)
          /\ \A c \in 1..n :
               /\ e.calls[c].seg = KeySeg(ex[c].key)
               /\ e.calls[c].sid = ex[c].schema
               /\ e.calls[c].value = Get(e.value, heap, ex[c].key)
          /\ e.out.kind = "success" => n = Len(ex)
  /\ \A e \in Aggregates :
       LET n == Len(e.calls)
       IN /\ \A c \in 1..(n - 1) : e.calls[c].out.kind = "success"
          /\ (n >= 1 /\ e.calls[n].out.kind = "failure")
               => (e.out.kind = "failure" /\ e.out.message = e.calls[n].out.message)
          /\ e.out.kind = "success" => \A c \in 1..n : e.calls[c].out.kind = "success"

\* An array whose first element passed and whose second failed, with a third
\* element never validated.
C8_Witness ==
  \E e \in Aggregates :
    /\ Type(e.sid) = "Array" /\ IsArray(e.value, heap)
    /\ Length(e.value, heap) > 2
    /\ Len(e.calls) = 2
    /\ e.calls[1].out.kind = "success"
    /\ e.calls[2].out.kind = "failure"
    /\ e.out.kind = "failure" /\ e.out.message = e.calls[2].out.message

\* The schemas a schema holds: its children and what its supplier returns.
Children(sid) ==
  LET n == SchemaTable[sid]
  IN {n.properties[j].schema : j \in 1..Len(n.properties)}
       \cup {n.schemas[j] : j \in 1..Len(n.schemas)}
       \cup ({n.element, n.lazy} \ {""})
\* Those of them it validates on its own argument: no property, no element
\* of the value is taken on the way.
SameValueChildren(sid) ==
  LET n == SchemaTable[sid]
  IN {n.schemas[j] : j \in 1..Len(n.schemas)} \cup ({n.lazy} \ {""})
RECURSIVE Closure(_), SameValueClosure(_)
Closure(S) ==
  LET T == S \cup UNION {Children(x) : x \in S}
  IN IF T = S THEN S ELSE Closure(T)
SameValueClosure(S) ==
  LET T == S \cup UNION {SameValueChildren(x) : x \in S}
  IN IF T = S THEN S ELSE SameValueClosure(T)
Reach(sid) == Closure({sid})
\* Every cycle of the schema graph passes through a property or an element.
Guarded(sid) ==
  \A x \in Reach(sid) : x \notin SameValueClosure(SameValueChildren(x))

Recursives == {e \in Ended : Type(e.sid) = "recursive"}
\* Each ended call on a recursive node called the supplier once, validated
\* the schema it returned on the same value once, and returned that result.
C9_Delegates ==
  \A e \in Recursives :
    /\ e.i = 1
    /\ Len(e.calls) = 1
    /\ e.calls[1].sid = SchemaTable[e.sid].lazy
    /\ e.calls[1].value = e.value
    /\ e.out = e.calls[1].out
\* The recursion depth is bounded by the nesting depth of the input.
C9_DepthBound == Len(stack) <= Cardinality(Reach(schema)) * (Depth(tree) + 1)

\* C9 as stated: validating any self-referential schema built with
\* recursive(supplier) on a finite acyclic input ends in Success or Failure,
\* each call on the recursive node calling the supplier once and delegating,
\* with the recursion depth bounded by the nesting depth of the input.
C9_Original ==
  Type(schema) = "recursive" =>
    /\ C9_Delegates
    /\ C9_DepthBound
    /\ pc = "done" => result.kind \in {"success", "failure"}

\* C9, amended: when every cycle of the schema graph passes through an
\* object property or an array element, validating the recursive schema on a
\* finite acyclic input terminates; each call on the recursive node calls the
\* supplier once and returns exactly what the schema it returned gives for
\* the same value; and the recursion depth is at most the number of schema
\* nodes times the nesting depth of the input plus one, so that the stack is
\* not exhausted when that many frames fit it.
C9_GuardedRecursion ==
  /\ [](Type(schema) = "recursive" /\ Guarded(schema) =>
         /\ C9_Delegates
         /\ C9_DepthBound
         /\ Cardinality(Reach(schema)) * (Depth(tree) + 1) <= MaxStack
              => \A e \in Ended : e.out # StackOverflow)
  /\ (Type(schema) = "recursive" /\ Guarded(schema)) => <>(pc = "done")

\* The list schema recursive(() => object({next: optional(list)})) has
\* validated an input nested three deep, through three calls on the
\* recursive node.
C9_Witness ==
  /\ pc = "done" /\ result.kind = "success"
  /\ Type(schema) = "recursive" /\ Guarded(schema)
  /\ Depth(tree) = 3
  /\ Cardinality({j \in 1..Len(log) : Type(log[j].sid) = "recursive"}) = 3

\* C10: no validate call changes the input: every object and array of the
\* input keeps its keys (length) and values, also when a rebuilt aggregate is
\* returned; and validating the same input again gives the same result.
C10_InputUntouched ==
  /\ Len(heap) >= Len(InputHeap)
  /\ SubSeq(heap, 1, Len(InputHeap)) = InputHeap
  /\ Reify(input, heap) = tree
  /\ (pc = "done" /\ run = 2) => ReifyOutcome(result, heap) = first

\* The second validation of an object has ended; two of its properties were
\* converted and a rebuilt object, not the input, was returned.
C10_Witness ==
  /\ pc = "done" /\ run = 2
  /\ result.kind = "success" /\ result.value # input
  /\ \E e \in ObjectCalls : e.value = input /\ Cardinality(ChangedCalls(e)) = 2

====
